---- MODULE Spec2Model ----
(***************************************************************************)
(* TruckersMP VTC Availability Scanner API (src/main.py).                  *)
(*                                                                         *)
(* Text is modelled as sequences of character codes (ASCII / Unicode code  *)
(* points), so that substring search, digit scanning, strip(), lower() and *)
(* the lexicographic comparison of sort keys are computed the way Python   *)
(* computes them.                                                          *)
(***************************************************************************)
EXTENDS Integers, Sequences, FiniteSets, TLC

VARIABLES
    VTC_DB,       \* the roster loaded at import time (id -> raw record)
    pc,           \* position of the /scan handler: "idle", "collecting", "done"
    event_urls,   \* payload.event_urls of the request being served
    i,            \* index of the next url of the for loop of collect_busy_vtcs
    busy,         \* the local set `busy` of collect_busy_vtcs
    fetched,      \* history: what each processed reference did (url, result)
    response,     \* the response of the request being served
    prev,         \* history: an earlier completed scan, kept for comparison
    html,         \* the markup handed to parse_vtcs_from_event_html
    vtc_ids,      \* the set the extractor returned
    parse_pc      \* "ready" before the extractor ran, "parsed" after

vars == <<VTC_DB, pc, event_urls, i, busy, fetched, response, prev,
          html, vtc_ids, parse_pc>>

scan_vars == <<VTC_DB, pc, event_urls, i, busy, fetched, response, prev>>
parse_vars == <<html, vtc_ids, parse_pc>>

(***************************************************************************)
(* Bounds of the model.                                                    *)
(***************************************************************************)
MaxUrls == 2        \* longest event_urls list of a request
MaxTokens == 3      \* longest href, in tokens, of the extractor's inputs
MaxAnchors == 2     \* most <a> elements of an enumerated markup

(***************************************************************************)
(* Strings.                                                                *)
(***************************************************************************)
Min(S) == CHOOSE x \in S : \A y \in S : x <= y

\* s[k..] starts with pat
IsPrefixAt(s, pat, k) ==
    /\ k + Len(pat) - 1 <= Len(s)
    /\ SubSeq(s, k, k + Len(pat) - 1) = pat

Occurrences(s, pat) == {k \in 1..Len(s) : IsPrefixAt(s, pat, k)}

\* "/vtc/"
VtcMarker == <<47, 118, 116, 99, 47>>

\* `"/vtc/" not in href` is the negation of this
StrContains(s, pat) == Occurrences(s, pat) # {}

\* href.split("/vtc/", 1)[1]: the text after the FIRST occurrence
AfterFirst(s, pat) == SubSeq(s, Min(Occurrences(s, pat)) + Len(pat), Len(s))

\* the characters int() reads as a decimal digit: "0".."9"
IsDecimal(ch) == ch \in 48..57

\* the superscript digits (U+00B2, U+00B3, U+00B9): str.isdigit() is True for
\* them, int() raises ValueError on them
IsSuperscriptDigit(ch) == ch \in {178, 179, 185}

\* ch.isdigit()
IsDigit(ch) == IsDecimal(ch) \/ IsSuperscriptDigit(ch)

\* the loop `for ch in after: if ch.isdigit(): id_str += ch else: break`
RECURSIVE DigitPrefix(_)
DigitPrefix(after) ==
    IF after = <<>> \/ ~IsDigit(Head(after))
    THEN <<>>
    ELSE <<Head(after)>> \o DigitPrefix(Tail(after))

\* int(id_str) returns (rather than raising ValueError)
IntParses(s) == s # <<>> /\ \A k \in 1..Len(s) : IsDecimal(s[k])

\* the value int(id_str) returns for a run of decimal digits
RECURSIVE IntValue(_)
IntValue(s) ==
    IF s = <<>> THEN 0
    ELSE IntValue(SubSeq(s, 1, Len(s) - 1)) * 10 + (s[Len(s)] - 48)

(***************************************************************************)
(* Markup.  BeautifulSoup(html, "lxml").find_all("a") yields the <a>       *)
(* elements in document order; a.get("href") is None or the target.  A     *)
(* markup is modelled as that sequence of elements.                        *)
(***************************************************************************)
NoHref == [has |-> FALSE, val |-> <<>>]
Href(s) == [has |-> TRUE, val |-> s]

\* the body of the for loop of parse_vtcs_from_event_html for one element:
\* the ids it adds (none or one)
AnchorIds(a) ==
    IF ~a.has THEN {}
    ELSE IF ~StrContains(a.val, VtcMarker) THEN {}
    ELSE LET id_str == DigitPrefix(AfterFirst(a.val, VtcMarker))
         IN  IF id_str = <<>> THEN {}
             ELSE IF ~IntParses(id_str) THEN {}
             ELSE {IntValue(id_str)}

RECURSIVE parse_vtcs_from_event_html(_)
parse_vtcs_from_event_html(markup) ==
    IF markup = <<>> THEN {}
    ELSE AnchorIds(Head(markup)) \cup parse_vtcs_from_event_html(Tail(markup))

(***************************************************************************)
(* Inputs of the extractor: hrefs built from a few tokens, markups of a    *)
(* few elements, and the markup of the documented example.                 *)
(***************************************************************************)
\* "/vtc/", "4", "2", "-", superscript two
HrefTokens == {VtcMarker, <<52>>, <<50>>, <<45>>, <<178>>}

RECURSIVE TokenStrings(_)
TokenStrings(n) ==
    IF n = 0 THEN {<<>>}
    ELSE LET shorter == TokenStrings(n - 1)
         IN  shorter \cup {s \o t : s \in shorter, t \in HrefTokens}

Anchors == {NoHref} \cup {Href(s) : s \in TokenStrings(MaxTokens)}

RECURSIVE SeqsUpTo(_, _)
SeqsUpTo(S, n) ==
    IF n = 0 THEN {<<>>}
    ELSE LET shorter == SeqsUpTo(S, n - 1)
         IN  shorter \cup {Append(s, x) : s \in shorter, x \in S}

\* /vtc/41, /vtc/42-some-slug, /vtc/bad, /other/43
ExampleMarkup ==
    << Href(<<47, 118, 116, 99, 47, 52, 49>>),
       Href(<<47, 118, 116, 99, 47, 52, 50, 45, 115, 111, 109, 101, 45, 115, 108, 117, 103>>),
       Href(<<47, 118, 116, 99, 47, 98, 97, 100>>),
       Href(<<47, 111, 116, 104, 101, 114, 47, 52, 51>>) >>

\* the markups of at most n elements, and the example
Markups(n) == SeqsUpTo(Anchors, n) \cup {ExampleMarkup}

(***************************************************************************)
(* JSON values of vtcs_source.json.  Every value is a record [t, v] with v *)
(* a sequence of integers: the code points of a string, <<n>> for the      *)
(* integer n, the elements of an array of integers, <<>> for null.         *)
(***************************************************************************)
Str(s) == [t |-> "str", v |-> s]
Num(n) == [t |-> "int", v |-> <<n>>]
Null == [t |-> "null", v |-> <<>>]
Arr(s) == [t |-> "list", v |-> s]

\* Python truthiness, as `x or y` tests it
Truthy(val) ==
    CASE val.t = "null" -> FALSE
      [] val.t = "int" -> val.v[1] # 0
      [] OTHER -> val.v # <<>>

\* x or y
Or(x, y) == IF Truthy(x) THEN x ELSE y

\* raw.get(key)
Get(raw, key) == IF key \in DOMAIN raw THEN raw[key] ELSE Null

\* int(x) of load_vtc_db: a number is itself, a string of decimal digits is its
\* value (ValueError otherwise), an array is a TypeError
IntOf(val) ==
    CASE val.t = "int" -> [ok |-> TRUE, n |-> val.v[1]]
      [] val.t = "str" /\ IntParses(val.v) -> [ok |-> TRUE, n |-> IntValue(val.v)]
      [] OTHER -> [ok |-> FALSE, n |-> 0]

(***************************************************************************)
(* The roster.  A Python dict iterates in insertion order and assigning to *)
(* a key it already holds keeps the key's place, so VTC_DB is a sequence   *)
(* of [id, raw] with distinct ids.                                         *)
(***************************************************************************)
DbIds(db) == {db[k].id : k \in DOMAIN db}

\* result[vtc_id] = raw
DbPut(db, vtc_id, raw) ==
    IF vtc_id \in DbIds(db)
    THEN [k \in DOMAIN db |->
            IF db[k].id = vtc_id THEN [id |-> vtc_id, raw |-> raw] ELSE db[k]]
    ELSE Append(db, [id |-> vtc_id, raw |-> raw])

\* the loop over a top-level JSON array; an item is [isdict, key, raw]
RECURSIVE LoadList(_, _)
LoadList(items, result) ==
    IF items = <<>> THEN result
    ELSE LET item == Head(items)
             raw_id == Get(item.raw, "id")
         IN  IF ~item.isdict THEN LoadList(Tail(items), result)
             ELSE IF raw_id.t = "null" THEN LoadList(Tail(items), result)
             ELSE IF ~IntOf(raw_id).ok THEN LoadList(Tail(items), result)
             ELSE LoadList(Tail(items), DbPut(result, IntOf(raw_id).n, item.raw))

\* the loop over a top-level JSON object { "123": {...}, ... }
RECURSIVE LoadDict(_, _)
LoadDict(items, result) ==
    IF items = <<>> THEN result
    ELSE LET item == Head(items)
         IN  IF ~IntOf(Str(item.key)).ok THEN LoadDict(Tail(items), result)
             ELSE IF item.isdict
                  THEN LoadDict(Tail(items), DbPut(result, IntOf(Str(item.key)).n, item.raw))
                  ELSE LoadDict(Tail(items), result)

\* data is [shape, items]: shape "missing" (no file), "list", "dict", or
\* "scalar" (any other JSON document)
load_vtc_db(data) ==
    CASE data.shape = "missing" -> <<>>
      [] data.shape = "list" -> LoadList(data.items, <<>>)
      [] data.shape = "dict" -> LoadDict(data.items, <<>>)
      [] OTHER -> <<>>

(***************************************************************************)
(* map_vtc_dict_to_entry and the VTCEntry model.                           *)
(***************************************************************************)
\* the fields VTCEntry declares `str | None`: any other value (an array, an
\* object) makes the constructor raise a ValidationError
IsStrOrNone(val) == val.t \in {"str", "null"}

extra_keys == {"id", "name", "status", "recruitment", "tmp_url",
               "truckersmp_url", "url", "discord", "discord_url"}

\* [ok, entry]: ok is FALSE when VTCEntry(...) raises
map_vtc_dict_to_entry(vtc_id, raw) ==
    LET name == Get(raw, "name")
        status == Get(raw, "status")
        recruitment == Get(raw, "recruitment")
        tmp_url == Or(Or(Get(raw, "tmp_url"), Get(raw, "truckersmp_url")), Get(raw, "url"))
        discord_url == Or(Get(raw, "discord"), Get(raw, "discord_url"))
        \* the pairs of the dict `extra`; the empty set stands for None
        extra == {<<key, raw[key]>> : key \in DOMAIN raw \ extra_keys}
    IN  [ok |-> \A val \in {name, status, recruitment, tmp_url, discord_url} :
                    IsStrOrNone(val),
         entry |-> [id |-> vtc_id, name |-> name, status |-> status,
                    recruitment |-> recruitment, tmp_url |-> tmp_url,
                    discord_url |-> discord_url, extra |-> extra]]

\* the dict `raw` once map_vtc_dict_to_entry has returned: it only reads it
\* (variant: raw.pop("name") in place of raw.get("name"))
RawAfterMapPop(raw) == [key \in DOMAIN raw \ {"name"} |-> raw[key]]
RawAfterMap(raw) == raw

(***************************************************************************)
(* The sort of free_vtcs.                                                  *)
(***************************************************************************)
\* Python's `a < b` on str: lexicographic by code point
RECURSIVE StrLess(_, _)
StrLess(a, b) ==
    IF b = <<>> THEN FALSE
    ELSE IF a = <<>> THEN TRUE
    ELSE IF Head(a) < Head(b) THEN TRUE
    ELSE IF Head(a) > Head(b) THEN FALSE
    ELSE StrLess(Tail(a), Tail(b))

\* str.lower(), on the ASCII letters
Lower(s) == [k \in DOMAIN s |-> IF s[k] \in 65..90 THEN s[k] + 32 ELSE s[k]]

\* "ZZZ"
StatusDefault == <<90, 90, 90>>

\* (variant: the name compared without .lower())
SortKeyNoLower(v) ==
    << Or(v.status, Str(StatusDefault)).v, Or(v.name, Str(<<>>)).v >>
\* lambda v: (v.status or "ZZZ", (v.name or "").lower())
SortKey(v) ==
    << Or(v.status, Str(StatusDefault)).v, Lower(Or(v.name, Str(<<>>)).v) >>

\* tuple `<` on two keys
KeyLess(x, y) ==
    \/ StrLess(x[1], y[1])
    \/ x[1] = y[1] /\ StrLess(x[2], y[2])

\* list.sort is stable: an element goes after everything that is not greater
RECURSIVE InsertSorted(_, _)
InsertSorted(sorted, v) ==
    IF sorted = <<>> THEN <<v>>
    ELSE IF KeyLess(SortKey(v), SortKey(Head(sorted))) THEN <<v>> \o sorted
    ELSE <<Head(sorted)>> \o InsertSorted(Tail(sorted), v)

RECURSIVE SortFree(_)
SortFree(free) ==
    IF free = <<>> THEN <<>>
    ELSE InsertSorted(SortFree(SubSeq(free, 1, Len(free) - 1)), free[Len(free)])

\* sorted(busy_ids)
RECURSIVE SortedIds(_)
SortedIds(S) ==
    IF S = {} THEN <<>>
    ELSE <<Min(S)>> \o SortedIds(S \ {Min(S)})

(***************************************************************************)
(* Lines 229-243 of scan_event_vtcs: filter, sort, respond.                *)
(***************************************************************************)
\* `if vtc_id in busy_ids: continue`
\* (variants: the test dropped; a recruitment test added to it)
SkippedNever(vtc_id, raw, busy_ids) == FALSE
SkippedUnlessOpen(vtc_id, raw, busy_ids) ==
    vtc_id \in busy_ids \/ Get(raw, "recruitment") # Str(<<79, 80, 69, 78>>)
Skipped(vtc_id, raw, busy_ids) == vtc_id \in busy_ids

\* the loop over VTC_DB.items(): [ok, free], ok FALSE when an entry raised
RECURSIVE CollectFree(_, _)
CollectFree(items, busy_ids) ==
    IF items = <<>> THEN [ok |-> TRUE, free |-> <<>>]
    ELSE LET h == Head(items)
         IN  IF Skipped(h.id, h.raw, busy_ids)
             THEN CollectFree(Tail(items), busy_ids)
             ELSE LET m == map_vtc_dict_to_entry(h.id, h.raw)
                      rest == CollectFree(Tail(items), busy_ids)
                  IN  IF ~m.ok THEN [ok |-> FALSE, free |-> <<>>]
                      ELSE [ok |-> rest.ok,
                            free |-> IF rest.ok THEN <<m.entry>> \o rest.free ELSE <<>>]

NoResponse == [status |-> 0, busy_vtc_ids |-> <<>>, free_vtcs |-> <<>>]
\* HTTPException(status_code=400, ...)
BadRequest == [status |-> 400, busy_vtc_ids |-> <<>>, free_vtcs |-> <<>>]
\* an exception nobody catches leaves the handler: the server answers 500
ServerError == [status |-> 500, busy_vtc_ids |-> <<>>, free_vtcs |-> <<>>]

BuildResponse(db, busy_ids) ==
    LET collected == CollectFree(db, busy_ids)
    IN  IF ~collected.ok THEN ServerError
        ELSE [status |-> 200,
              busy_vtc_ids |-> SortedIds(busy_ids),
              free_vtcs |-> SortFree(collected.free)]

\* VTC_DB once the loop over its items has run
RosterAfterScan(db, busy_ids) ==
    [k \in DOMAIN db |->
        IF Skipped(db[k].id, db[k].raw, busy_ids) THEN db[k]
        ELSE [id |-> db[k].id, raw |-> RawAfterMap(db[k].raw)]]

(***************************************************************************)
(* Roster files.                                                           *)
(***************************************************************************)
Item(raw) == [isdict |-> TRUE, key |-> <<>>, raw |-> raw]
KeyedItem(key, raw) == [isdict |-> TRUE, key |-> key, raw |-> raw]
\* an element that is not an object (a string, a number)
NonDictItem == [isdict |-> FALSE, key |-> <<>>, raw |-> [id |-> Null]]

\* {"id": 1, "name": "b", "status": "verified", "recruitment": "OPEN", "members": 5}
RecA == [id |-> Num(1), name |-> Str(<<98>>),
         status |-> Str(<<118, 101, 114, 105, 102, 105, 101, 100>>),
         recruitment |-> Str(<<79, 80, 69, 78>>), members |-> Num(5)]
\* {"id": 2, "name": "C", "status": "verified", "recruitment": "CLOSED",
\*  "members": 50, "url": "t"}
RecB == [id |-> Num(2), name |-> Str(<<67>>),
         status |-> Str(<<118, 101, 114, 105, 102, 105, 101, 100>>),
         recruitment |-> Str(<<67, 76, 79, 83, 69, 68>>), members |-> Num(50),
         url |-> Str(<<116>>)]
\* {"id": 3, "name": "a", "status": "normal", "recruitment": "OPEN", "members": 1000}
RecC == [id |-> Num(3), name |-> Str(<<97>>),
         status |-> Str(<<110, 111, 114, 109, 97, 108>>),
         recruitment |-> Str(<<79, 80, 69, 78>>), members |-> Num(1000)]
\* {"id": "2", "status": "VERIFIED", "recruitment": " open ", "discord": "",
\*  "discord_url": "d"}
RecD == [id |-> Str(<<50>>),
         status |-> Str(<<86, 69, 82, 73, 70, 73, 69, 68>>),
         recruitment |-> Str(<<32, 111, 112, 101, 110, 32>>),
         discord |-> Str(<<>>), discord_url |-> Str(<<100>>)]
\* {"id": 3, "name": "B", "recruitment": null}
RecE == [id |-> Num(3), name |-> Str(<<66>>), recruitment |-> Null]
\* {"id": "x", "name": "a"}
RecF == [id |-> Str(<<120>>), name |-> Str(<<97>>)]
\* {"id": 3, "name": [1], "status": "validated"}
RecG == [id |-> Num(3), name |-> Arr(<<1>>),
         status |-> Str(<<118, 97, 108, 105, 100, 97, 116, 101, 100>>)]
\* {"name": "a", "status": ""}
RecH == [name |-> Str(<<97>>), status |-> Str(<<>>)]

RecordPool == {Item(RecA), Item(RecB), Item(RecC), Item(RecD), Item(RecE),
               Item(RecF), Item(RecG), Item(RecH), NonDictItem}

MaxRoster == 3      \* most elements of an enumerated roster file

FileMissing == [shape |-> "missing", items |-> <<>>]
FileScalar == [shape |-> "scalar", items |-> <<>>]
\* {"1": {...}, "x": {...}, "2": "text", "3": {...}}
FileDict == [shape |-> "dict",
             items |-> << KeyedItem(<<49>>, RecE), KeyedItem(<<120>>, RecA),
                          [isdict |-> FALSE, key |-> <<50>>, raw |-> [id |-> Null]],
                          KeyedItem(<<51>>, RecB) >>]
FileGood == [shape |-> "list", items |-> <<Item(RecA), Item(RecB), Item(RecC)>>]
FileBad == [shape |-> "list", items |-> <<Item(RecA), Item(RecG)>>]

\* the files the scanning service starts from
ServiceFiles == {FileMissing, FileGood, FileBad}

\* the files the filter is exercised on
RosterFiles ==
    {[shape |-> "list", items |-> items] : items \in SeqsUpTo(RecordPool, MaxRoster)}
    \cup {FileMissing, FileScalar, FileDict}

RosterIds == 1..3

(***************************************************************************)
(* Event references and what fetching one can do.                          *)
(***************************************************************************)
\* the characters str.strip() removes (the ASCII ones)
IsSpace(ch) == ch = 32 \/ ch \in 9..13 \/ ch \in 28..31

RECURSIVE LStrip(_)
LStrip(s) == IF s # <<>> /\ IsSpace(Head(s)) THEN LStrip(Tail(s)) ELSE s

RECURSIVE RStrip(_)
RStrip(s) ==
    IF s # <<>> /\ IsSpace(s[Len(s)]) THEN RStrip(SubSeq(s, 1, Len(s) - 1)) ELSE s

\* url.strip()
Strip(s) == RStrip(LStrip(s))

\* "  "
UrlBlank == <<32, 32>>
\* " http://a "
UrlPadded == <<32, 104, 116, 116, 112, 58, 47, 47, 97, 32>>
\* "http://" followed by the control character U+0001
UrlMalformed == <<104, 116, 116, 112, 58, 47, 47, 1>>

EventUrls == {UrlBlank, UrlPadded, UrlMalformed}

\* client.get() raises httpx.InvalidURL for a url holding a non-printable
\* ASCII character; InvalidURL is not an httpx.HTTPError
IsInvalidURL(url) == \E k \in DOMAIN url : url[k] < 32 \/ url[k] = 127

\* <a href="/vtc/1">, <a href="/vtc/2-x">
PageOne == << Href(<<47, 118, 116, 99, 47, 49>>),
              Href(<<47, 118, 116, 99, 47, 50, 45, 120>>) >>
\* <a href="/vtc/2">, <a>, <a href="/vtc/3">
PageTwo == << Href(<<47, 118, 116, 99, 47, 50>>), NoHref,
              Href(<<47, 118, 116, 99, 47, 51>>) >>

EventPages == {PageOne, PageTwo}

Failure(kind) == [kind |-> kind, markup |-> <<>>]

\* what `await fetch_html(client, url)` can do: return resp.text, or raise
\* HTTPStatusError (raise_for_status on a non-2xx answer), ReadTimeout
\* (timeout=20), ConnectError (transport failure) or InvalidURL
FetchResults(url) ==
    IF IsInvalidURL(url) THEN {Failure("InvalidURL")}
    ELSE {[kind |-> "ok", markup |-> m] : m \in EventPages}
         \cup {Failure("HTTPStatusError"), Failure("ReadTimeout"), Failure("ConnectError")}

\* `except httpx.HTTPError`: the exception classes it catches
IsHTTPError(kind) == kind \in {"HTTPStatusError", "ReadTimeout", "ConnectError"}

\* `if not payload.event_urls`
\* (variant: the test dropped)
IsEmptyPayloadNever(urls) == FALSE
IsEmptyPayload(urls) == urls = <<>>

\* `busy: Set[int] = set()`: the value of the local whatever was there before
\* (variant: the set kept from the request before)
StaleBusy(previous) == previous
FreshBusy(previous) == {}

\* busy.update(vtc_ids)
\* (variant: busy = vtc_ids)
BusyAssign(busy_ids, found) == found
BusyUpdate(busy_ids, found) == busy_ids \cup found

Blank == [kind |-> "blank", markup |-> <<>>]
NoScan == [have |-> FALSE, event_urls |-> <<>>, fetched |-> <<>>,
           busy |-> {}, response |-> NoResponse]

(***************************************************************************)
(* The service.  One request is served at a time: the locals of a handler  *)
(* are its own, so interleaving two handlers changes nothing either reads. *)
(***************************************************************************)
Init ==
    /\ \E data \in ServiceFiles : VTC_DB = load_vtc_db(data)
    /\ pc = "idle"
    /\ event_urls = <<>>
    /\ i = 1
    /\ busy = {}
    /\ fetched = <<>>
    /\ response = NoResponse
    /\ prev = NoScan
    /\ html = <<>>
    /\ vtc_ids = {}
    /\ parse_pc = "ready"

\* lines 229-243, once the loop of collect_busy_vtcs has ended with busy_ids
Respond(busy_ids) ==
    /\ pc' = "done"
    /\ response' = BuildResponse(VTC_DB, busy_ids)
    /\ VTC_DB' = RosterAfterScan(VTC_DB, busy_ids)

\* the end of one iteration of the loop of collect_busy_vtcs
Iterated(urls, busy_ids) ==
    IF i' > Len(urls) THEN Respond(busy_ids)
    ELSE pc' = "collecting" /\ UNCHANGED <<response, VTC_DB>>

\* POST /scan with an empty list: HTTPException 400
ScanRejected ==
    /\ pc = "idle"
    /\ \E urls \in SeqsUpTo(EventUrls, MaxUrls) :
        /\ IsEmptyPayload(urls)
        /\ event_urls' = urls
    /\ pc' = "done"
    /\ response' = BadRequest
    /\ fetched' = <<>>
    /\ UNCHANGED <<VTC_DB, i, busy, prev, parse_vars>>

\* POST /scan with event_urls: collect_busy_vtcs starts
ScanAccepted ==
    /\ pc = "idle"
    /\ \E urls \in SeqsUpTo(EventUrls, MaxUrls) :
        /\ ~IsEmptyPayload(urls)
        /\ event_urls' = urls
        /\ busy' = FreshBusy(busy)
        /\ i' = 1
        /\ fetched' = <<>>
        /\ Iterated(urls, FreshBusy(busy))
    /\ UNCHANGED <<prev, parse_vars>>

\* an iteration whose url is empty once stripped: `continue`
SkipBlank ==
    /\ pc = "collecting"
    /\ Strip(event_urls[i]) = <<>>
    /\ i' = i + 1
    /\ fetched' = Append(fetched, Blank)
    /\ busy' = busy
    /\ Iterated(event_urls, busy)
    /\ UNCHANGED <<event_urls, prev, parse_vars>>

\* an iteration whose fetch returns markup
FetchOk ==
    /\ pc = "collecting"
    /\ Strip(event_urls[i]) # <<>>
    /\ \E r \in FetchResults(Strip(event_urls[i])) :
        /\ r.kind = "ok"
        /\ fetched' = Append(fetched, r)
        /\ busy' = BusyUpdate(busy, parse_vtcs_from_event_html(r.markup))
    /\ i' = i + 1
    /\ Iterated(event_urls, busy')
    /\ UNCHANGED <<event_urls, prev, parse_vars>>

\* an iteration whose fetch raises an httpx.HTTPError: warn and `continue`
FetchFailed ==
    /\ pc = "collecting"
    /\ Strip(event_urls[i]) # <<>>
    /\ \E r \in FetchResults(Strip(event_urls[i])) :
        /\ r.kind # "ok"
        /\ IsHTTPError(r.kind)
        /\ fetched' = Append(fetched, r)
    /\ i' = i + 1
    /\ busy' = busy
    /\ Iterated(event_urls, busy)
    /\ UNCHANGED <<event_urls, prev, parse_vars>>

\* an iteration whose fetch raises anything else: the exception leaves
\* collect_busy_vtcs and scan_event_vtcs
FetchCrashed ==
    /\ pc = "collecting"
    /\ Strip(event_urls[i]) # <<>>
    /\ \E r \in FetchResults(Strip(event_urls[i])) :
        /\ r.kind # "ok"
        /\ ~IsHTTPError(r.kind)
        /\ fetched' = Append(fetched, r)
    /\ pc' = "done"
    /\ response' = ServerError
    /\ UNCHANGED <<VTC_DB, event_urls, i, busy, prev, parse_vars>>

ThisScan == [have |-> TRUE, event_urls |-> event_urls, fetched |-> fetched,
             busy |-> busy, response |-> response]

\* the response is sent; the next request can be served
Deliver ==
    /\ pc = "done"
    /\ pc' = "idle"
    /\ event_urls' = <<>>
    /\ i' = 1
    /\ fetched' = <<>>
    /\ response' = NoResponse
    /\ UNCHANGED <<VTC_DB, busy, prev, parse_vars>>

\* the same, with the scan remembered for comparison with a later one
DeliverAndRemember ==
    /\ pc = "done"
    /\ prev' = ThisScan
    /\ pc' = "idle"
    /\ event_urls' = <<>>
    /\ i' = 1
    /\ fetched' = <<>>
    /\ response' = NoResponse
    /\ UNCHANGED <<VTC_DB, busy, parse_vars>>

\* {"status": "ok", "message": ...}
RootReply == [status |-> 200, busy_vtc_ids |-> <<>>, free_vtcs |-> <<>>]

\* GET /
root ==
    /\ pc = "idle"
    /\ response' = RootReply
    /\ UNCHANGED <<VTC_DB, pc, event_urls, i, busy, fetched, prev, parse_vars>>

Next ==
    \/ ScanRejected
    \/ ScanAccepted
    \/ SkipBlank
    \/ FetchOk
    \/ FetchFailed
    \/ FetchCrashed
    \/ Deliver
    \/ DeliverAndRemember
    \/ root

Spec == Init /\ [][Next]_vars

(***************************************************************************)
(* The extractor on its own: parse_vtcs_from_event_html applied to every   *)
(* markup of Markups(MaxAnchors).                                          *)
(***************************************************************************)
InitExtract ==
    /\ html \in Markups(MaxAnchors)
    /\ vtc_ids = {}
    /\ parse_pc = "ready"
    /\ VTC_DB = <<>>
    /\ pc = "idle"
    /\ event_urls = <<>>
    /\ i = 1
    /\ busy = {}
    /\ fetched = <<>>
    /\ response = NoResponse
    /\ prev = NoScan

Extract ==
    /\ parse_pc = "ready"
    /\ vtc_ids' = parse_vtcs_from_event_html(html)
    /\ parse_pc' = "parsed"
    /\ UNCHANGED <<html, scan_vars>>

NextExtract == Extract

SpecExtract == InitExtract /\ [][NextExtract]_vars

(***************************************************************************)
(* The filter on its own: lines 229-243 of scan_event_vtcs applied to      *)
(* every roster load_vtc_db builds from RosterFiles and every busy set.    *)
(***************************************************************************)
InitFilter ==
    /\ \E data \in RosterFiles : VTC_DB = load_vtc_db(data)
    /\ busy \in SUBSET RosterIds
    /\ pc = "idle"
    /\ event_urls = <<>>
    /\ i = 1
    /\ fetched = <<>>
    /\ response = NoResponse
    /\ prev = NoScan
    /\ html = <<>>
    /\ vtc_ids = {}
    /\ parse_pc = "ready"

Filter ==
    /\ pc = "idle"
    /\ Respond(busy)
    /\ UNCHANGED <<event_urls, i, busy, fetched, prev, parse_vars>>

NextFilter == Filter

SpecFilter == InitFilter /\ [][NextFilter]_vars

(***************************************************************************)
(* Properties.                                                             *)
(***************************************************************************)
Answered == pc = "done" /\ response.status = 200

\* C1: a scan request whose event-reference list is empty ends in BadRequest
\* (HTTP 400): the handler never enters the collecting loop for it, no fetch
\* is attempted, and the response is not a successful one.
C1_EmptyRejected ==
    /\ pc = "collecting" => event_urls # <<>>
    /\ (pc = "done" /\ event_urls = <<>>) =>
           /\ response = BadRequest
           /\ response.status # 200
           /\ fetched = <<>>

C1_Witness == pc = "done" /\ event_urls = <<>> /\ response.status = 400

\* the outcomes C2 names: success with markup, non-2xx status, timeout,
\* transport failure
NamedOutcomes == {"ok", "HTTPStatusError", "ReadTimeout", "ConnectError"}

\* the union of the ids extracted from the references fetched successfully
SuccessfulIds ==
    UNION {parse_vtcs_from_event_html(fetched[k].markup) :
              k \in {j \in DOMAIN fetched : fetched[j].kind = "ok"}}

AllNamedOutcomes ==
    /\ Len(fetched) = Len(event_urls)
    /\ \A k \in DOMAIN fetched : fetched[k].kind \in NamedOutcomes

\* C2: for a non-empty list of references each fetched with one of the named
\* outcomes, the scan completes with a successful result whose busy set is
\* exactly the union of the ids of the successfully fetched references.
C2_Claim ==
    (pc = "done" /\ event_urls # <<>> /\ AllNamedOutcomes) =>
        /\ response.status = 200
        /\ response.busy_vtc_ids = SortedIds(SuccessfulIds)

\* the part of C2 the collecting loop decides: failed references contribute
\* nothing and stop nothing, whatever the roster then does to the response
C2_BusyIsUnionOfSuccesses ==
    (pc = "done" /\ event_urls # <<>> /\ AllNamedOutcomes) =>
        /\ busy = SuccessfulIds
        /\ response.status = 200 => response.busy_vtc_ids = SortedIds(SuccessfulIds)
        /\ response.status # 200 => ~CollectFree(VTC_DB, busy).ok

\* C3: no record of the available list is busy, every record of it is a
\* roster record, and a roster record that is not busy appears in it at
\* most once.
C3_Exclusion ==
    Answered =>
        /\ \A k \in DOMAIN response.free_vtcs : response.free_vtcs[k].id \notin busy
        /\ \A k \in DOMAIN response.free_vtcs :
               \E j \in DOMAIN VTC_DB :
                   /\ VTC_DB[j].id = response.free_vtcs[k].id
                   /\ response.free_vtcs[k].name = Get(VTC_DB[j].raw, "name")
                   /\ response.free_vtcs[k].status = Get(VTC_DB[j].raw, "status")
        /\ \A j \in DOMAIN VTC_DB :
               VTC_DB[j].id \notin busy =>
                   Cardinality({k \in DOMAIN response.free_vtcs :
                                   response.free_vtcs[k].id = VTC_DB[j].id}) <= 1

\* roster ids {1, 2} with busy set {2}: the available list is id 1 only
C3_Witness ==
    /\ Answered
    /\ DbIds(VTC_DB) = {1, 2}
    /\ busy = {2}
    /\ Len(response.free_vtcs) = 1
    /\ response.free_vtcs[1].id = 1

\* ---- the ordering C4 states ----
StatusText(v) == IF v.status.t = "str" THEN Lower(v.status.v) ELSE <<>>

ClaimedRank(v) ==
    CASE StatusText(v) = <<118, 101, 114, 105, 102, 105, 101, 100>> -> 0
      [] StatusText(v) = <<118, 97, 108, 105, 100, 97, 116, 101, 100>> -> 1
      [] StatusText(v) = <<110, 111, 114, 109, 97, 108>> -> 2
      [] OTHER -> 3

Members(v) ==
    IF \E p \in v.extra : p[1] = "members" /\ p[2].t = "int"
    THEN (CHOOSE p \in v.extra : p[1] = "members")[2].v[1]
    ELSE 0

NameText(v) == IF v.name.t = "str" THEN Lower(v.name.v) ELSE <<>>

\* x may come before y under (rank ascending, members descending, name ascending)
ClaimedOrder(x, y) ==
    \/ ClaimedRank(x) < ClaimedRank(y)
    \/ ClaimedRank(x) = ClaimedRank(y) /\ Members(x) > Members(y)
    \/ ClaimedRank(x) = ClaimedRank(y) /\ Members(x) = Members(y)
         /\ ~StrLess(NameText(y), NameText(x))

\* C4 as stated: the available list is ordered by status rank (verified <
\* validated < normal < unrecognized, case-insensitive), then descending
\* members, then ascending case-insensitive name.
C4_Claim ==
    Answered =>
        \A k \in 1..(Len(response.free_vtcs) - 1) :
            ClaimedOrder(response.free_vtcs[k], response.free_vtcs[k + 1])

\* ---- the ordering the code produces ----
RawStatusText(v) ==
    IF v.status.t = "str" /\ v.status.v # <<>> THEN v.status.v ELSE <<90, 90, 90>>

RosterIndex(vtc_id) == CHOOSE j \in DOMAIN VTC_DB : VTC_DB[j].id = vtc_id

\* C4 amended: the available list is ordered by the status text as written,
\* compared by code point (case-sensitively; a missing or empty status
\* counts as "ZZZ"), then by ascending case-insensitive name; members plays
\* no part, and records equal on both keep their roster order.
C4_Amended ==
    Answered =>
        \A k \in 1..(Len(response.free_vtcs) - 1) :
            LET x == response.free_vtcs[k]
                y == response.free_vtcs[k + 1]
            IN  \/ StrLess(RawStatusText(x), RawStatusText(y))
                \/ /\ RawStatusText(x) = RawStatusText(y)
                   /\ StrLess(NameText(x), NameText(y))
                \/ /\ RawStatusText(x) = RawStatusText(y)
                   /\ NameText(x) = NameText(y)
                   /\ RosterIndex(x.id) < RosterIndex(y.id)

\* three available records: one status, then two of another status told
\* apart by name, the one with fewer members first
C4_Witness ==
    /\ Answered
    /\ Len(response.free_vtcs) = 3
    /\ RawStatusText(response.free_vtcs[1]) # RawStatusText(response.free_vtcs[2])
    /\ RawStatusText(response.free_vtcs[2]) = RawStatusText(response.free_vtcs[3])
    /\ NameText(response.free_vtcs[2]) # NameText(response.free_vtcs[3])
    /\ Members(response.free_vtcs[2]) < Members(response.free_vtcs[3])
    /\ Members(response.free_vtcs[1]) > Members(response.free_vtcs[3])

\* str.upper(), on the ASCII letters
Upper(s) == [k \in DOMAIN s |-> IF s[k] \in 97..122 THEN s[k] - 32 ELSE s[k]]

RecruitmentOpen(v) ==
    v.recruitment.t = "str" /\ Upper(Strip(v.recruitment.v)) = <<79, 80, 69, 78>>

\* C5 as stated: with recruitment-open-only in effect (the default), a record
\* is in the available list only if its recruitment field, trimmed and
\* upper-cased, is exactly OPEN.
C5_Claim ==
    Answered =>
        \A k \in DOMAIN response.free_vtcs : RecruitmentOpen(response.free_vtcs[k])

\* C5 amended: the scan takes no recruitment option; every roster record that
\* is not busy is in the available list whatever its recruitment field holds
\* (OPEN, CLOSED, nothing), and the field is handed through unchanged.
C5_Amended ==
    Answered =>
        \A j \in DOMAIN VTC_DB :
            VTC_DB[j].id \notin busy =>
                \E k \in DOMAIN response.free_vtcs :
                    /\ response.free_vtcs[k].id = VTC_DB[j].id
                    /\ response.free_vtcs[k].recruitment
                           = Get(VTC_DB[j].raw, "recruitment")

\* a record whose recruitment is CLOSED, and one whose recruitment is OPEN,
\* are both in the available list
C5_Witness ==
    /\ Answered
    /\ \E k \in DOMAIN response.free_vtcs :
           response.free_vtcs[k].recruitment = Str(<<67, 76, 79, 83, 69, 68>>)
    /\ \E k \in DOMAIN response.free_vtcs : RecruitmentOpen(response.free_vtcs[k])

\* ---- the set C6 states ----
RECURSIVE DecimalRun(_, _)
DecimalRun(s, k) ==
    IF k > Len(s) \/ ~IsDecimal(s[k]) THEN <<>>
    ELSE <<s[k]>> \o DecimalRun(s, k + 1)

ClaimedAnchorIds(a) ==
    IF ~a.has THEN {}
    ELSE {IntValue(DecimalRun(a.val, k + Len(VtcMarker))) :
             k \in {j \in Occurrences(a.val, VtcMarker) :
                       /\ j + Len(VtcMarker) <= Len(a.val)
                       /\ IsDecimal(a.val[j + Len(VtcMarker)])}}

ClaimedIds(markup) == UNION {ClaimedAnchorIds(markup[k]) : k \in DOMAIN markup}

\* C6: the extractor returns exactly the integers n such that some hyperlink
\* target contains /vtc/ followed immediately by one or more decimal digits
\* whose maximal digit run denotes n.
C6_Claim == parse_pc = "parsed" => vtc_ids = ClaimedIds(html)

\* the documented example, which the code does get right
C6_ExampleHolds ==
    (parse_pc = "parsed" /\ html = ExampleMarkup) => vtc_ids = {41, 42}

\* ---- comparing two scans ----
\* the references of a scan with what each did, as a sequence of pairs
Refs(scan) == [k \in DOMAIN scan.fetched |-> <<scan.event_urls[k], scan.fetched[k]>>]

Complete(scan) == Len(scan.fetched) = Len(scan.event_urls)

Count(seq, x) == Cardinality({k \in DOMAIN seq : seq[k] = x})

IsPermutation(a, b) ==
    /\ Len(a) = Len(b)
    /\ \A k \in DOMAIN a : Count(a, a[k]) = Count(b, a[k])

\* C7: two scans whose reference lists are permutations of each other, each
\* reference with the same fetch outcome, yield the same busy set and the
\* same busy-id list.
C7_OrderIndependent ==
    (pc = "done" /\ event_urls # <<>> /\ prev.have
        /\ Complete(prev) /\ Complete(ThisScan)
        /\ IsPermutation(Refs(prev), Refs(ThisScan))) =>
        /\ prev.busy = busy
        /\ prev.response.status = response.status
        /\ prev.response.busy_vtc_ids = response.busy_vtc_ids

\* two scans of two successfully fetched references with different markup,
\* in the two orders
C7_Witness ==
    /\ Answered
    /\ prev.have
    /\ Len(event_urls) = 2
    /\ Complete(ThisScan)
    /\ IsPermutation(Refs(prev), Refs(ThisScan))
    /\ fetched[1].kind = "ok"
    /\ fetched[2].kind = "ok"
    /\ fetched[1] # fetched[2]
    /\ prev.fetched # fetched
    /\ response.busy_vtc_ids = <<1, 2, 3>>

\* C8: every scan of a non-empty event-reference list returns a successful
\* result, whatever the references and whatever the roster records hold.
C8_Claim == (pc = "done" /\ event_urls # <<>>) => response.status = 200

\* C9: no step of the service (scan, liveness request, whatever the outcome)
\* changes the roster.
C9_RosterUnchanged == [][VTC_DB' = VTC_DB]_vars

\* a scan has built a non-empty available list and the roster is still the
\* one loaded at startup
C9_Witness ==
    /\ Answered
    /\ Len(response.free_vtcs) = 1
    /\ busy = {2, 3}
    /\ VTC_DB = load_vtc_db(FileGood)

\* C10: two scans with the same event-reference list and the same outcome per
\* reference (and the roster of the process) return identical results,
\* whatever scans ran in between.
C10_Idempotent ==
    (pc = "done" /\ prev.have /\ prev.event_urls = event_urls
        /\ prev.fetched = fetched) =>
        prev.response = response

\* the same scan, with a non-empty busy list and a non-empty available list,
\* ran twice
C10_Witness ==
    /\ Answered
    /\ prev.have
    /\ prev.event_urls = event_urls
    /\ prev.fetched = fetched
    /\ Len(event_urls) = 2
    /\ response.busy_vtc_ids # <<>>
    /\ response.free_vtcs # <<>>

====
